---- MODULE Spec2Model ----
(***************************************************************************)
(* CartHaven storefront component (src/src/home.tsx, EcommerceApp).         *)
(*                                                                         *)
(* The component is a set of React state cells, three effects and a few    *)
(* event handlers.  The model keeps the cells as variables, the values the *)
(* last render captured (the closures of the handlers and effects, and     *)
(* what is on screen) in `view`, and the effects the last commit scheduled *)
(* in `pendingEffects`.  A handler or effect reads the captured values and *)
(* writes the cells; Render captures the cells again.                      *)
(***************************************************************************)
EXTENDS Integers, Sequences, FiniteSets, TLC

VARIABLES
    products,          \* useState<Product[]>([])
    filteredProducts,  \* useState<Product[]>([])
    searchQuery,       \* useState<string>('')
    cart,              \* useState<CartItem[]>([])
    loading,           \* useState<boolean>(true)
    error,             \* useState<string>('')
    selectedCategory,  \* useState<string>('all')
    view,              \* the cell values captured by the last render
    pendingEffects,    \* effects scheduled by the last commit, in declaration order
    fetchPc,           \* position of the async function fetchProducts
    requests,          \* number of requests issued to the product API
    last,              \* history: the last cart handler call and the cart it read
    adds,              \* history: number of addToCart calls so far
    others             \* history: TRUE once updateQuantity or removeFromCart was called

vars == <<products, filteredProducts, searchQuery, cart, loading, error,
          selectedCategory, view, pendingEffects, fetchPc, requests,
          last, adds, others>>

hookCells == <<products, filteredProducts, searchQuery, cart, loading, error,
               selectedCategory>>

history == <<last, adds, others>>

----------------------------------------------------------------------------
(* Bounds *)

MaxQueryLen == 1   \* longest search text typed
MaxQty == 2        \* largest quantity of one cart entry explored
MaxAdds == 3       \* most addToCart calls explored

----------------------------------------------------------------------------
(* Data *)

\* The ids of the category buttons.
categories ==
    <<"all", "electronics", "jewelery", "men's clothing", "women's clothing">>

CategoryIds == {categories[i] : i \in DOMAIN categories}

\* interface Product; a title is a sequence of characters.
Product(i, t, p, c) == [id |-> i, title |-> t, price |-> p, category |-> c]

\* A response of the product API: ids are unique and not in id order.
Feed ==
    << Product(3, <<"B">>, 7, "electronics"),
       Product(1, <<"A", "b">>, 10, "electronics"),
       Product(2, <<"b", "a">>, 5, "jewelery") >>

Products == {Feed[i] : i \in DOMAIN Feed}

ProductIds == {p.id : p \in Products}

\* The decoded bodies the API may answer with: the feed cut at any length.
Catalogs == {SubSeq(Feed, 1, n) : n \in 0..Len(Feed)}

Chars == {"a", "A", "b"}

\* What the user may type into the search box.
Queries == UNION {[1..n -> Chars] : n \in 0..MaxQueryLen}

\* The deltas updateQuantity is called with; the buttons pass -1 and 1.
Deltas == -2..2

\* What a failed request or decode is rejected with.
NetworkError == [isError |-> TRUE, message |-> "Failed to fetch"]
DecodeError == [isError |-> TRUE, message |-> "Unexpected token < in JSON"]
NonError == [isError |-> FALSE, message |-> ""]
HttpError == [isError |-> TRUE, message |-> "Failed to fetch products"]

Rejections == {NetworkError, NonError}

----------------------------------------------------------------------------
(* Strings *)

\* String.prototype.toLowerCase on one character.
LowerChar(c) == CASE c = "A" -> "a" [] c = "B" -> "b" [] OTHER -> c

toLowerCase(s) == [i \in DOMAIN s |-> LowerChar(s[i])]

\* String.prototype.includes: s occurs in t as a contiguous substring.
includes(t, s) ==
    \E k \in 0..(Len(t) - Len(s)) : SubSeq(t, k + 1, k + Len(s)) = s

----------------------------------------------------------------------------
(* Rendering and effects *)

\* The values a render captures.
Snapshot ==
    [products |-> products, filteredProducts |-> filteredProducts,
     searchQuery |-> searchQuery, cart |-> cart, loading |-> loading,
     error |-> error, selectedCategory |-> selectedCategory]

\* The argument of setFilteredProducts in the category effect, run by render v.
categoryEffect(v) ==
    IF v.selectedCategory = "all"
    THEN v.products
    ELSE SelectSeq(v.products, LAMBDA p : p.category = v.selectedCategory)

searchEffect_IgnoresCategory(v) ==
    SelectSeq(v.products,
              LAMBDA product :
                  includes(toLowerCase(product.title), toLowerCase(v.searchQuery)))

\* The argument of setFilteredProducts in the search effect, run by render v.
searchEffect(v) ==
    SelectSeq(IF v.selectedCategory = "all"
              THEN v.products
              ELSE SelectSeq(v.products, LAMBDA p : p.category = v.selectedCategory),
              LAMBDA product :
                  includes(toLowerCase(product.title), toLowerCase(v.searchQuery)))

\* filteredProducts after one effect of render v ran; the fetch effect leaves it.
RunEffect(name, v, fp) ==
    CASE name = "category" -> categoryEffect(v)
      [] name = "search" -> searchEffect(v)
      [] OTHER -> fp

\* filteredProducts after the effects in queue ran one after the other.
RECURSIVE RunEffects(_, _, _)
RunEffects(queue, v, fp) ==
    IF queue = <<>> THEN fp
    ELSE RunEffects(Tail(queue), v, RunEffect(Head(queue), v, fp))

\* The effects a commit schedules: those with a changed dependency, in the
\* order the component declares them.  The fetch effect depends on nothing.
ScheduledEffects(old, new) ==
    (IF old.selectedCategory # new.selectedCategory \/ old.products # new.products
     THEN <<"category">> ELSE <<>>)
    \o
    (IF \/ old.searchQuery # new.searchQuery
        \/ old.products # new.products
        \/ old.selectedCategory # new.selectedCategory
     THEN <<"search">> ELSE <<>>)

\* All three effects run after the first render.
MountEffects == <<"fetch", "category", "search">>

InQueue(name) == \E i \in DOMAIN pendingEffects : pendingEffects[i] = name

\* The scheduled effects run back to back.  The fetch effect is the synchronous
\* head of fetchProducts: setLoading(true), setError(''), and the request.
FlushEffects ==
    /\ pendingEffects # <<>>
    /\ filteredProducts' = RunEffects(pendingEffects, view, filteredProducts)
    /\ IF InQueue("fetch")
       THEN /\ loading' = TRUE
            /\ error' = ""
            /\ fetchPc' = "pending"
            /\ requests' = requests + 1
       ELSE UNCHANGED <<loading, error, fetchPc, requests>>
    /\ pendingEffects' = <<>>
    /\ UNCHANGED <<products, searchQuery, cart, selectedCategory, view, history>>

\* A re-render after some cell changed: the handlers and effects of the new
\* render capture the current cells.
Render ==
    /\ pendingEffects = <<>>
    /\ view # Snapshot
    /\ view' = Snapshot
    /\ pendingEffects' = ScheduledEffects(view, Snapshot)
    /\ UNCHANGED <<hookCells, fetchPc, requests, history>>

----------------------------------------------------------------------------
(* Catalog loader: the continuations of fetchProducts *)

\* catch: the message stored by setError.
catchMessage(err) ==
    IF err.isError THEN err.message
    ELSE "An error occurred while fetching products"

FetchFailed_KeepsLoading(err) ==
    /\ error' = catchMessage(err)
    /\ fetchPc' = "failed"
    /\ UNCHANGED <<loading, products, filteredProducts>>

\* catch and finally.
FetchFailed(err) ==
    /\ error' = catchMessage(err)
    /\ loading' = FALSE
    /\ fetchPc' = "failed"
    /\ UNCHANGED <<products, filteredProducts>>

\* await fetch(...) rejects.
FetchRejected(err) ==
    /\ fetchPc = "pending"
    /\ FetchFailed(err)
    /\ UNCHANGED <<searchQuery, cart, selectedCategory, view, pendingEffects,
                   requests, history>>

\* await fetch(...) resolves; a response that is not ok throws.
FetchResponded(ok) ==
    /\ fetchPc = "pending"
    /\ IF ok
       THEN /\ fetchPc' = "decoding"
            /\ UNCHANGED <<error, loading, products, filteredProducts>>
       ELSE FetchFailed(HttpError)
    /\ UNCHANGED <<searchQuery, cart, selectedCategory, view, pendingEffects,
                   requests, history>>

FetchSucceeded_KeepsLoading(data) ==
    /\ products' = data
    /\ filteredProducts' = data
    /\ fetchPc' = "loaded"
    /\ UNCHANGED <<error, loading>>

\* setProducts(data), setFilteredProducts(data) and finally.
FetchSucceeded(data) ==
    /\ products' = data
    /\ filteredProducts' = data
    /\ loading' = FALSE
    /\ fetchPc' = "loaded"
    /\ UNCHANGED error

\* await response.json() resolves.
JsonResolved(data) ==
    /\ fetchPc = "decoding"
    /\ FetchSucceeded(data)
    /\ UNCHANGED <<searchQuery, cart, selectedCategory, view, pendingEffects,
                   requests, history>>

\* await response.json() rejects.
JsonRejected(err) ==
    /\ fetchPc = "decoding"
    /\ FetchFailed(err)
    /\ UNCHANGED <<searchQuery, cart, selectedCategory, view, pendingEffects,
                   requests, history>>

----------------------------------------------------------------------------
(* Filter inputs *)

\* onClick of a category button.
SetSelectedCategory(k) ==
    /\ selectedCategory' = k
    /\ UNCHANGED <<products, filteredProducts, searchQuery, cart, loading, error,
                   view, pendingEffects, fetchPc, requests, history>>

\* onChange of the search box.
SetSearchQuery(q) ==
    /\ searchQuery' = q
    /\ UNCHANGED <<products, filteredProducts, cart, loading, error,
                   selectedCategory, view, pendingEffects, fetchPc, requests,
                   history>>

----------------------------------------------------------------------------
(* Cart *)

Max(a, b) == IF a >= b THEN a ELSE b

CartItem_DropsPrice(product, q) ==
    [id |-> product.id, title |-> product.title, price |-> 0,
     category |-> product.category, quantity |-> q]

\* { ...product, quantity: q }
CartItem(product, q) ==
    [id |-> product.id, title |-> product.title, price |-> product.price,
     category |-> product.category, quantity |-> q]

\* cart.find(item => item.id === id) finds an entry.
HasItem(c, id) == \E i \in DOMAIN c : c[i].id = id

addToCart_AlwaysAppends(c, product) == Append(c, CartItem(product, 1))

addToCart_Prepends(c, product) ==
    IF HasItem(c, product.id)
    THEN [i \in DOMAIN c |->
             IF c[i].id = product.id
             THEN [c[i] EXCEPT !.quantity = c[i].quantity + 1]
             ELSE c[i]]
    ELSE <<CartItem(product, 1)>> \o c

\* The argument of setCart in addToCart, c being the cart the handler captured.
addToCart(c, product) ==
    IF HasItem(c, product.id)
    THEN [i \in DOMAIN c |->
             IF c[i].id = product.id
             THEN [c[i] EXCEPT !.quantity = c[i].quantity + 1]
             ELSE c[i]]
    ELSE Append(c, CartItem(product, 1))

updateQuantity_NoFilter(c, id, delta) ==
    [i \in DOMAIN c |->
        IF c[i].id = id
        THEN [c[i] EXCEPT !.quantity = Max(0, c[i].quantity + delta)]
        ELSE c[i]]

updateQuantity_FloorsAtOne(c, id, delta) ==
    SelectSeq([i \in DOMAIN c |->
                  IF c[i].id = id
                  THEN [c[i] EXCEPT !.quantity = Max(1, c[i].quantity + delta)]
                  ELSE c[i]],
              LAMBDA item : item.quantity > 0)

\* The argument of setCart in updateQuantity.
updateQuantity(c, id, delta) ==
    SelectSeq([i \in DOMAIN c |->
                  IF c[i].id = id
                  THEN [c[i] EXCEPT !.quantity = Max(0, c[i].quantity + delta)]
                  ELSE c[i]],
              LAMBDA item : item.quantity > 0)

removeFromCart_DropsFirst(c, id) ==
    IF HasItem(c, id) THEN Tail(c) ELSE c

\* The argument of setCart in removeFromCart.
removeFromCart(c, id) == SelectSeq(c, LAMBDA item : item.id # id)

RECURSIVE totalCost(_)
\* cart.reduce((sum, item) => sum + item.price * item.quantity, 0)
totalCost(c) ==
    IF c = <<>> THEN 0
    ELSE Head(c).price * Head(c).quantity + totalCost(Tail(c))

RECURSIVE totalItems(_)
\* cart.reduce((sum, item) => sum + item.quantity, 0)
totalItems(c) ==
    IF c = <<>> THEN 0 ELSE Head(c).quantity + totalItems(Tail(c))

\* The exploration stops at quantities above MaxQty.
WithinQty(c) == \A i \in DOMAIN c : c[i].quantity <= MaxQty

NoCall == [op |-> "none", id |-> 0, delta |-> 0, before |-> <<>>]

Call(op, id, delta) == [op |-> op, id |-> id, delta |-> delta, before |-> view.cart]

\* addToCart called with any product; it reads the cart of the last render.
CallAddToCart(product) ==
    /\ adds < MaxAdds
    /\ WithinQty(addToCart(view.cart, product))
    /\ cart' = addToCart(view.cart, product)
    /\ last' = Call("addToCart", product.id, 0)
    /\ adds' = adds + 1
    /\ UNCHANGED <<products, filteredProducts, searchQuery, loading, error,
                   selectedCategory, view, pendingEffects, fetchPc, requests,
                   others>>

\* updateQuantity called with any id and delta.
CallUpdateQuantity(id, delta) ==
    /\ WithinQty(updateQuantity(view.cart, id, delta))
    /\ cart' = updateQuantity(view.cart, id, delta)
    /\ last' = Call("updateQuantity", id, delta)
    /\ others' = TRUE
    /\ UNCHANGED <<products, filteredProducts, searchQuery, loading, error,
                   selectedCategory, view, pendingEffects, fetchPc, requests,
                   adds>>

\* removeFromCart called with any id.
CallRemoveFromCart(id) ==
    /\ cart' = removeFromCart(view.cart, id)
    /\ last' = Call("removeFromCart", id, 0)
    /\ others' = TRUE
    /\ UNCHANGED <<products, filteredProducts, searchQuery, loading, error,
                   selectedCategory, view, pendingEffects, fetchPc, requests,
                   adds>>

----------------------------------------------------------------------------
(* Specifications *)

\* The component after its first render, before any effect ran.
Init ==
    /\ products = <<>>
    /\ filteredProducts = <<>>
    /\ searchQuery = <<>>
    /\ cart = <<>>
    /\ loading = TRUE
    /\ error = ""
    /\ selectedCategory = "all"
    /\ view = [products |-> <<>>, filteredProducts |-> <<>>, searchQuery |-> <<>>,
               cart |-> <<>>, loading |-> TRUE, error |-> "",
               selectedCategory |-> "all"]
    /\ pendingEffects = MountEffects
    /\ fetchPc = "idle"
    /\ requests = 0
    /\ last = NoCall
    /\ adds = 0
    /\ others = FALSE

\* Catalog loading and filtering.
NextView ==
    \/ FlushEffects
    \/ Render
    \/ \E err \in Rejections : FetchRejected(err)
    \/ \E ok \in BOOLEAN : FetchResponded(ok)
    \/ \E data \in Catalogs : JsonResolved(data)
    \/ JsonRejected(DecodeError)
    \/ \E k \in CategoryIds : SetSelectedCategory(k)
    \/ \E q \in Queries : SetSearchQuery(q)

SpecView == Init /\ [][NextView]_vars

\* The cart handlers, called with any arguments, between renders.
NextCart ==
    \/ FlushEffects
    \/ Render
    \/ \E product \in Products : CallAddToCart(product)
    \/ \E id \in ProductIds, delta \in Deltas : CallUpdateQuantity(id, delta)
    \/ \E id \in ProductIds : CallRemoveFromCart(id)

SpecCart == Init /\ [][NextCart]_vars

----------------------------------------------------------------------------
(* The component as the user drives it *)

\* The products drawn with an Add to Cart button by render v: none while
\* loading or while an error is shown.
ProductsGrid(v) ==
    IF v.loading THEN <<>>
    ELSE IF v.error # "" THEN <<>>
    ELSE v.filteredProducts

\* setCart(c) from a button of the last render; the call history belongs to
\* the Call actions and is not kept here.
SetCart(c) ==
    /\ WithinQty(c)
    /\ cart' = c
    /\ UNCHANGED <<products, filteredProducts, searchQuery, loading, error,
                   selectedCategory, view, pendingEffects, fetchPc, requests,
                   history>>

\* onClick of the Add to Cart button of the i-th product on screen.
ClickAddToCart(i) ==
    /\ i \in DOMAIN ProductsGrid(view)
    /\ SetCart(addToCart(view.cart, ProductsGrid(view)[i]))

\* onClick of the minus (-1) or plus (1) button of the i-th cart entry on screen.
ClickQuantity(i, delta) ==
    /\ i \in DOMAIN view.cart
    /\ SetCart(updateQuantity(view.cart, view.cart[i].id, delta))

\* onClick of the trash button of the i-th cart entry on screen.
ClickRemove(i) ==
    /\ i \in DOMAIN view.cart
    /\ SetCart(removeFromCart(view.cart, view.cart[i].id))

\* React commits the state updates of one user event before it dispatches the
\* next: a user event finds what it wrote last on screen.
Committed ==
    /\ view.cart = cart
    /\ view.selectedCategory = selectedCategory
    /\ view.searchQuery = searchQuery

Next ==
    \/ FlushEffects
    \/ Render
    \/ \E err \in Rejections : FetchRejected(err)
    \/ \E ok \in BOOLEAN : FetchResponded(ok)
    \/ \E data \in Catalogs : JsonResolved(data)
    \/ JsonRejected(DecodeError)
    \/ \E k \in CategoryIds : Committed /\ SetSelectedCategory(k)
    \/ \E q \in Queries : Committed /\ SetSearchQuery(q)
    \/ \E i \in DOMAIN Feed : Committed /\ ClickAddToCart(i)
    \/ \E i \in DOMAIN Feed, delta \in {-1, 1} : Committed /\ ClickQuantity(i, delta)
    \/ \E i \in DOMAIN Feed : Committed /\ ClickRemove(i)

Spec == Init /\ [][Next]_vars

----------------------------------------------------------------------------
(* Properties: filtering *)

\* t contains s, compared character by character without regard to case.
ContainsIgnoringCase(t, s) ==
    \E k \in 0..(Len(t) - Len(s)) :
        \A j \in 1..Len(s) : LowerChar(t[k + j]) = LowerChar(s[j])

Matches(p, k, s) ==
    /\ k = "all" \/ p.category = k
    /\ ContainsIgnoringCase(p.title, s)

\* The products of catalog C matching category k and search text s, in C's order.
Visible(C, k, s) == SelectSeq(C, LAMBDA p : Matches(p, k, s))

\* No effect is scheduled and no render is due.
Quiescent == pendingEffects = <<>> /\ view = Snapshot

\* C1: once the effects triggered by a change of catalog, category or search
\* text have all run, filteredProducts is exactly the products of the catalog
\* that match the category and contain the search text ignoring case, in the
\* catalog's order.
C1_FilteredIsCombinedFilter ==
    Quiescent =>
        filteredProducts = Visible(products, selectedCategory, searchQuery)

\* The combined filter shows strictly less than the category filter alone.
C1_Witness ==
    /\ Quiescent
    /\ products = Feed
    /\ selectedCategory = "electronics"
    /\ searchQuery = <<"A">>
    /\ filteredProducts = <<Feed[2]>>
    /\ categoryEffect(view) = <<Feed[1], Feed[2]>>

\* C2: in every state the visible list is within the catalog and holds exactly
\* the products matching the selected category and the search text.
C2_VisibleAlwaysFiltered ==
    /\ \A i \in DOMAIN view.filteredProducts :
           \E j \in DOMAIN view.products :
               view.filteredProducts[i] = view.products[j]
    /\ view.filteredProducts =
           Visible(view.products, view.selectedCategory, view.searchQuery)

----------------------------------------------------------------------------
(* Properties: cart *)

Quantity(c, id) == (CHOOSE i \in DOMAIN c : c[i].id = id)

IdsOf(c) == [i \in DOMAIN c |-> c[i].id]

OthersOf(c, id) == SelectSeq(c, LAMBDA item : item.id # id)

ProductOf(id) == CHOOSE p \in Products : p.id = id

\* C3: after any sequence of addToCart, updateQuantity and removeFromCart
\* calls from the empty cart, the cart has at most one entry per product id.
C3_OneEntryPerId ==
    \A i, j \in DOMAIN cart : cart[i].id = cart[j].id => i = j

\* addToCart met an entry of its product in a cart of several entries.
C3_Witness ==
    /\ last.op = "addToCart"
    /\ HasItem(last.before, last.id)
    /\ Len(cart) >= 2
    /\ cart[Quantity(cart, last.id)].quantity = 2

\* C4: after any sequence of calls, with positive or negative deltas, every
\* entry of the cart has quantity at least 1.
C4_QuantityPositive ==
    \A i \in DOMAIN cart : cart[i].quantity >= 1

\* updateQuantity took an entry of quantity 1 below zero, next to another entry.
C4_Witness ==
    /\ last.op = "updateQuantity"
    /\ last.delta = -2
    /\ HasItem(last.before, last.id)
    /\ last.before[Quantity(last.before, last.id)].quantity = 1
    /\ Len(last.before) >= 2
    /\ cart # <<>>

\* C5: addToCart(p) raises the quantity of p's entry by exactly 1 in place when
\* the cart it reads has one, appends an entry of quantity 1 for p otherwise,
\* and leaves every other entry as it was; two calls in a row, the second
\* reading the result of the first, on a cart without p leave one entry for p,
\* of quantity 2.
C5_AddToCartUpserts ==
    /\ last.op = "addToCart" =>
         LET b == last.before
             p == ProductOf(last.id)
         IN IF HasItem(b, p.id)
            THEN /\ Len(cart) = Len(b)
                 /\ \A i \in DOMAIN b :
                        IF b[i].id = p.id
                        THEN /\ cart[i].quantity = b[i].quantity + 1
                             /\ [cart[i] EXCEPT !.quantity = 0]
                                    = [b[i] EXCEPT !.quantity = 0]
                        ELSE cart[i] = b[i]
            ELSE /\ Len(cart) = Len(b) + 1
                 /\ SubSeq(cart, 1, Len(b)) = b
                 /\ cart[Len(cart)] = CartItem(p, 1)
    /\ \A p \in Products :
         ~HasItem(cart, p.id) =>
             LET twice == addToCart(addToCart(cart, p), p)
             IN /\ Len(twice) = Len(cart) + 1
                /\ Cardinality({i \in DOMAIN twice : twice[i].id = p.id}) = 1
                /\ twice[Len(twice)] = CartItem(p, 2)
                /\ SubSeq(twice, 1, Len(cart)) = cart

\* addToCart appended a new entry behind the entries already there.
C5_Witness ==
    /\ last.op = "addToCart"
    /\ ~HasItem(last.before, last.id)
    /\ Len(last.before) = 2
    /\ Len(cart) = 3

\* C6: updateQuantity(id, delta) on a cart with an entry for id at quantity q
\* leaves that entry at q + delta when q + delta >= 1 and removes it when
\* q + delta <= 0; the other entries and the order are unchanged; with no
\* entry for id the cart is unchanged.
C6_UpdateQuantityAdjustsOrRemoves ==
    last.op = "updateQuantity" =>
        LET b == last.before
            id == last.id
        IN /\ OthersOf(cart, id) = OthersOf(b, id)
           /\ IdsOf(cart) = SelectSeq(IdsOf(b), LAMBDA x : HasItem(cart, x))
           /\ IF HasItem(b, id)
              THEN LET q == b[Quantity(b, id)].quantity
                   IN IF q + last.delta >= 1
                      THEN /\ HasItem(cart, id)
                           /\ cart[Quantity(cart, id)]
                                  = [b[Quantity(b, id)] EXCEPT
                                         !.quantity = q + last.delta]
                      ELSE ~HasItem(cart, id)
              ELSE cart = b

\* updateQuantity removed the middle entry of three.
C6_Witness ==
    /\ last.op = "updateQuantity"
    /\ Len(last.before) = 3
    /\ last.before[2].id = last.id
    /\ last.before[2].quantity + last.delta <= 0
    /\ Len(cart) = 2

\* C7: after removeFromCart(id) the cart has no entry for id, whatever its
\* quantity; the other entries keep their quantity and order; with no entry
\* for id the cart is unchanged.
C7_RemoveFromCartDeletesOnlyId ==
    last.op = "removeFromCart" =>
        LET b == last.before
            id == last.id
        IN /\ ~HasItem(cart, id)
           /\ IF HasItem(b, id)
              THEN LET k == Quantity(b, id)
                   IN cart = SubSeq(b, 1, k - 1) \o SubSeq(b, k + 1, Len(b))
              ELSE cart = b

\* removeFromCart deleted the middle entry of three, of quantity 2.
C7_Witness ==
    /\ last.op = "removeFromCart"
    /\ Len(last.before) = 3
    /\ last.before[2].id = last.id
    /\ last.before[2].quantity = 2
    /\ Len(cart) = 2

----------------------------------------------------------------------------
(* Properties: catalog loader *)

\* C8: when the fetch fails the component holds a non-empty error message, an
\* empty catalog and loading = false, and no second request was issued.
C8_FailureState ==
    fetchPc = "failed" =>
        /\ error # ""
        /\ products = <<>>
        /\ loading = FALSE
        /\ requests = 1

\* The failure is on screen and the user went on using the filters.
C8_Witness ==
    /\ fetchPc = "failed"
    /\ Quiescent
    /\ view.error = HttpError.message
    /\ view.loading = FALSE
    /\ searchQuery # <<>>
    /\ selectedCategory # "all"

AtMostOne(a, b, c) == ~(a /\ b) /\ ~(a /\ c) /\ ~(b /\ c)

\* C9: at most one of loading, error set, catalog populated holds, in the
\* cells and on screen.
C9_LoadingErrorPopulatedExclusive ==
    /\ AtMostOne(loading, error # "", products # <<>>)
    /\ AtMostOne(view.loading, view.error # "", view.products # <<>>)

\* The catalog is on screen.
C9_Witness ==
    /\ view.products = Feed
    /\ view.loading = FALSE
    /\ view.error = ""
    /\ fetchPc = "loaded"

----------------------------------------------------------------------------
(* Properties: cart and catalog *)

\* The catalog has a product with the entry's id, price and title.
InCatalog(item) ==
    \E j \in DOMAIN products :
        /\ products[j].id = item.id
        /\ products[j].price = item.price
        /\ products[j].title = item.title

FetchOutstandingOrFailed == fetchPc \in {"idle", "pending", "decoding", "failed"}

CartWithinCatalog ==
    /\ \A i \in DOMAIN cart : InCatalog(cart[i])
    /\ FetchOutstandingOrFailed => cart = <<>>

FilterChangeKeepsCart ==
    (selectedCategory' # selectedCategory \/ searchQuery' # searchQuery)
        => cart' = cart

\* C11: every cart entry carries the id, price and title of a product of the
\* fetched catalog, so the cart is empty while the fetch is outstanding and
\* after a failed fetch; and a change of the selected category or of the
\* search text leaves the cart as it is.
C11_CartWithinCatalog ==
    []CartWithinCatalog /\ [][FilterChangeKeepsCart]_vars

\* An entry is in the cart while the filters keep its product off the screen.
C11_Witness ==
    /\ Quiescent
    /\ selectedCategory = "jewelery"
    /\ searchQuery # <<>>
    /\ \E i \in DOMAIN cart :
           /\ cart[i].category = "electronics"
           /\ cart[i].quantity = 2
           /\ \A j \in DOMAIN view.filteredProducts :
                  view.filteredProducts[j].id # cart[i].id

====
